---- MODULE Spec2Model ----
(***************************************************************************)
(* GrafoTransito (src/AtvGrafo.py): a weighted road graph kept as a dict   *)
(* of dicts, its four mutations, and its three queries (existe_trajeto,    *)
(* listar_caminhos, caminho_mais_rapido).                                  *)
(*                                                                         *)
(* A name is a sequence of one-character strings, so that str.strip() is   *)
(* computed rather than assumed.  A travel time is an integer; float("inf")*)
(* is the number INF, larger than every sum of times the model can form.   *)
(* self.adj is a function from names to functions from names to times.     *)
(* The iteration order of the inner dicts (insertion order in Python) is   *)
(* the variable ordem, drawn when a query that iterates in order starts.   *)
(***************************************************************************)
EXTENDS Integers, Sequences, FiniteSets, TLC

\* ------------------------------------------------------------------ bounds
\* Spec (the mutations): the largest travel time given, the most edges kept.
MaxTempo == 2
MaxRuas == 3
\* SpecRota (caminho_mais_rapido): the largest time and the most edges of a graph.
MaxTempoRota == 3
MaxRuasRota == 3

\* float("inf")
INF == 1000000

\* The valid names the model uses, and names str.strip() empties.
Nomes == {<<"A">>, <<"B">>, <<"C">>}
NomesInvalidos == {<<>>, <<" ">>}
\* The times _validar_tempo accepts, and times it rejects.
TemposValidos == 1..MaxTempo
TemposInvalidos == {-1, 0, INF}
\* The arguments the mutations and queries are called with.
NomesEntrada == Nomes \cup {<<" ">>}
TemposEntrada == {0} \cup TemposValidos \cup {INF}

VARIABLES
    direcionado,    \* self.direcionado
    adj,            \* self.adj
    ult,            \* the last mutation called and whether it raised ValueError
    pc,             \* which query is running, and where
    origem,         \* the running query's origem
    destino,        \* the running query's destino
    ordem,          \* iteration order of each self.adj[n] during the query
    fila,           \* existe_trajeto: the deque
    visitados,      \* existe_trajeto: the visited set
    enfileirados,   \* existe_trajeto: how many times each node was appended to fila
    nao_visitados,  \* caminho_mais_rapido: the unfinalized set
    distancia,      \* caminho_mais_rapido: distancia
    anterior,       \* caminho_mais_rapido: anterior
    retorno         \* the value the finished query returned

grafoVars == <<direcionado, adj>>
consultaVars == <<pc, origem, destino, ordem, fila, visitados, enfileirados,
                  nao_visitados, distancia, anterior, retorno>>
vars == <<direcionado, adj, ult, pc, origem, destino, ordem, fila, visitados,
          enfileirados, nao_visitados, distancia, anterior, retorno>>

\* ------------------------------------------------------------ dict helpers
\* {}
Vazio == [d \in {} |-> 0]
\* m[k] = v
Put(m, k, v) == [x \in (DOMAIN m) \cup {k} |-> IF x = k THEN v ELSE m[x]]
\* del m[k]
Del(m, k) == [x \in (DOMAIN m) \ {k} |-> m[x]]
\* None
None == <<"None">>

\* -------------------------------------------------------------- validation
IsSpace(c) == c \in {" ", "\t", "\n"}

RECURSIVE lstrip(_)
lstrip(s) == IF s = <<>> THEN s
             ELSE IF IsSpace(Head(s)) THEN lstrip(Tail(s)) ELSE s

RECURSIVE rstrip(_)
rstrip(s) == IF s = <<>> THEN s
             ELSE IF IsSpace(s[Len(s)]) THEN rstrip(SubSeq(s, 1, Len(s) - 1)) ELSE s

strip(s) == rstrip(lstrip(s))

\* TRUE when _validar_intersecao_nome returns, FALSE when it raises.
validar_intersecao_nome(nome) == strip(nome) /= <<>>

isfinite(t) == t /= INF /\ t /= -INF

\* TRUE when _validar_tempo returns, FALSE when it raises.
validar_tempo(tempo_min) == ~(~isfinite(tempo_min) \/ tempo_min <= 0)

\* ------------------------------------------------------------- inspection
possui_intersecao(g, nome) == nome \in DOMAIN g

possui_rua(g, o, d) == IF o \notin DOMAIN g THEN FALSE ELSE d \in DOMAIN g[o]

ruas(g) == {<<p[1], p[2], g[p[1]][p[2]]>> : p \in {q \in (DOMAIN g) \X Nomes : q[2] \in DOMAIN g[q[1]]}}

numero_de_ruas(g) == Cardinality({q \in (DOMAIN g) \X Nomes : q[2] \in DOMAIN g[q[1]]})

\* ------------------------------------------------------------ construction
\* Every destination named in the initial mapping.
DestinosDe(ini) == UNION {DOMAIN ini[o] : o \in DOMAIN ini}

\* TRUE when _carregar_adjacencia_inicial returns, FALSE when it raises.
carregar_valida(ini) ==
    /\ \A o \in DOMAIN ini : validar_intersecao_nome(o)
    /\ \A o \in DOMAIN ini : \A d \in DOMAIN ini[o] :
          validar_intersecao_nome(d) /\ validar_tempo(ini[o][d])

\* self.adj after _carregar_adjacencia_inicial(ini): every origin is a key,
\* every destination becomes a key (empty if it was not an origin), and
\* each time is copied.  Nothing is mirrored, whatever self.direcionado is.
carregar_adjacencia_inicial(ini) ==
    [n \in (DOMAIN ini) \cup DestinosDe(ini) |->
        IF n \in DOMAIN ini THEN [d \in DOMAIN ini[n] |-> ini[n][d]] ELSE Vazio]

\* The sets of at most maxRuas edges over Nomes.
ConjuntosDeRuas(maxRuas) == {E \in SUBSET (Nomes \X Nomes) : Cardinality(E) <= maxRuas}

\* The key sets an initial mapping with the edges E can have.
Origens(E) == {S \in SUBSET Nomes : \A e \in E : e[1] \in S}

\* The initial mapping origin -> {destination -> time} with the keys S, the
\* edges E and the times w.
Mapeamento(S, E, w) == [o \in S |-> [d \in {x \in Nomes : <<o, x>> \in E} |-> w[<<o, d>>]]]

Ocioso ==
    /\ pc = "idle"
    /\ origem = None
    /\ destino = None
    /\ ordem = Vazio
    /\ fila = <<>>
    /\ visitados = {}
    /\ enfileirados = Vazio
    /\ nao_visitados = {}
    /\ distancia = Vazio
    /\ anterior = Vazio
    /\ retorno = [erro |-> FALSE, valor |-> None]

\* GrafoTransito(direcionado, adjacencia_inicial); an empty mapping is falsy
\* and leaves self.adj = {}.
GrafoTransito(dir, ini) ==
    /\ direcionado = dir
    /\ carregar_valida(ini)
    /\ adj = IF ini /= Vazio THEN carregar_adjacencia_inicial(ini) ELSE Vazio

\* The constructor, given any initial mapping with times in 1..maxTempo and at
\* most maxRuas edges.
Construido(dirs, maxTempo, maxRuas) ==
    \E dir \in dirs, E \in ConjuntosDeRuas(maxRuas) :
        \E S \in Origens(E), w \in [E -> 1..maxTempo] :
            GrafoTransito(dir, Mapeamento(S, E, w))

Init ==
    /\ Construido(BOOLEAN, MaxTempo, MaxRuas)
    /\ ult = [op |-> "__init__", erro |-> FALSE]
    /\ Ocioso

\* ---------------------------------------------------------------- mutation
\* Each mutation is a function of self.adj (and self.direcionado) that says
\* whether the call raised ValueError and what self.adj is afterwards; the
\* action applies it to the state.
Aplica(op, r) ==
    /\ pc = "idle"
    /\ ult' = [op |-> op, erro |-> r.erro]
    /\ adj' = r.adj
    /\ UNCHANGED direcionado
    /\ UNCHANGED consultaVars

com_intersecao(g, nome) ==
    IF ~validar_intersecao_nome(nome)
    THEN [erro |-> TRUE, adj |-> g]
    ELSE [erro |-> FALSE, adj |-> IF nome \notin DOMAIN g THEN Put(g, nome, Vazio) ELSE g]

adicionar_intersecao(nome) == Aplica("adicionar_intersecao", com_intersecao(adj, nome))

\* Mutant: the node's own entry is deleted, the edges arriving at it stay.
sem_intersecao_esquecendo_chegadas(g, nome) ==
    IF ~validar_intersecao_nome(nome) \/ nome \notin DOMAIN g
    THEN [erro |-> TRUE, adj |-> g]
    ELSE [erro |-> FALSE, adj |-> Del(g, nome)]

\* Mutant: the entries of the nodes that led to nome are emptied.
sem_intersecao_esvaziando_origens(g, nome) ==
    IF ~validar_intersecao_nome(nome) \/ nome \notin DOMAIN g
    THEN [erro |-> TRUE, adj |-> g]
    ELSE [erro |-> FALSE,
          adj |-> [o \in (DOMAIN g) \ {nome} |->
                      IF nome \in DOMAIN g[o] THEN Vazio ELSE g[o]]]

\* remover_intersecao: del self.adj[nome], then the loop deleting nome from
\* every remaining node's dict.
sem_intersecao(g, nome) ==
    IF ~validar_intersecao_nome(nome) \/ nome \notin DOMAIN g
    THEN [erro |-> TRUE, adj |-> g]
    ELSE [erro |-> FALSE,
          adj |-> [o \in (DOMAIN g) \ {nome} |->
                      IF nome \in DOMAIN g[o] THEN Del(g[o], nome) ELSE g[o]]]

remover_intersecao(nome) == Aplica("remover_intersecao", sem_intersecao(adj, nome))

\* Mutant: the nodes are created before the time is validated.
com_rua_validando_depois(g, dir, o, d, tempo_min) ==
    LET g1 == IF o \notin DOMAIN g THEN Put(g, o, Vazio) ELSE g
        g2 == IF d \notin DOMAIN g1 THEN Put(g1, d, Vazio) ELSE g1
        g3 == Put(g2, o, Put(g2[o], d, tempo_min))
    IN  IF ~validar_intersecao_nome(o) \/ ~validar_intersecao_nome(d) THEN [erro |-> TRUE, adj |-> g]
        ELSE IF ~validar_tempo(tempo_min) THEN [erro |-> TRUE, adj |-> g2]
        ELSE [erro |-> FALSE,
              adj |-> IF ~dir THEN Put(g3, d, Put(g3[d], o, tempo_min)) ELSE g3]

\* adicionar_rua.
com_rua(g, dir, o, d, tempo_min) ==
    LET g1 == IF o \notin DOMAIN g THEN Put(g, o, Vazio) ELSE g
        g2 == IF d \notin DOMAIN g1 THEN Put(g1, d, Vazio) ELSE g1
        g3 == Put(g2, o, Put(g2[o], d, tempo_min))
    IN  IF \/ ~validar_intersecao_nome(o)
           \/ ~validar_intersecao_nome(d)
           \/ ~validar_tempo(tempo_min)
        THEN [erro |-> TRUE, adj |-> g]
        ELSE [erro |-> FALSE,
              adj |-> IF ~dir THEN Put(g3, d, Put(g3[d], o, tempo_min)) ELSE g3]

adicionar_rua(o, d, tempo_min) ==
    LET r == com_rua(adj, direcionado, o, d, tempo_min)
    IN  /\ numero_de_ruas(r.adj) <= MaxRuas
        /\ Aplica("adicionar_rua", r)

\* remover_rua.
sem_rua(g, dir, o, d) ==
    LET g1 == Put(g, o, Del(g[o], d))
    IN  IF \/ ~validar_intersecao_nome(o)
           \/ ~validar_intersecao_nome(d)
           \/ (o \notin DOMAIN g \/ d \notin DOMAIN g[o])
        THEN [erro |-> TRUE, adj |-> g]
        ELSE [erro |-> FALSE,
              adj |-> IF ~dir /\ d \in DOMAIN g1 /\ o \in DOMAIN g1[d]
                      THEN Put(g1, d, Del(g1[d], o)) ELSE g1]

remover_rua(o, d) == Aplica("remover_rua", sem_rua(adj, direcionado, o, d))

Next ==
    \/ \E nome \in NomesEntrada : adicionar_intersecao(nome)
    \/ \E nome \in NomesEntrada : remover_intersecao(nome)
    \/ \E o \in NomesEntrada, d \in NomesEntrada, t \in TemposEntrada : adicionar_rua(o, d, t)
    \/ \E o \in NomesEntrada, d \in NomesEntrada : remover_rua(o, d)

Spec == Init /\ [][Next]_vars

\* ----------------------------------------------------------------- queries
\* The orders in which a dict with the keys S can iterate.
Permutacoes(S) ==
    {s \in [1..Cardinality(S) -> S] : \A i, j \in 1..Cardinality(S) : i /= j => s[i] /= s[j]}

\* One iteration order for every inner dict of g.
Ordens(g) ==
    {o \in [DOMAIN g -> UNION {Permutacoes(DOMAIN g[n]) : n \in DOMAIN g}] :
        \A n \in DOMAIN g : o[n] \in Permutacoes(DOMAIN g[n])}

Elementos(s) == {s[i] : i \in 1..Len(s)}

Retorna(rotulo, valor) ==
    /\ pc' = rotulo
    /\ retorno' = [erro |-> FALSE, valor |-> valor]

Levanta(rotulo) ==
    /\ pc' = rotulo
    /\ retorno' = [erro |-> TRUE, valor |-> None]

\* A finished query hands its result back; its locals are gone.
retornar ==
    /\ pc \in {"existe_trajeto_fim", "listar_caminhos_fim", "caminho_mais_rapido_fim"}
    /\ pc' = "idle"
    /\ origem' = None
    /\ destino' = None
    /\ ordem' = Vazio
    /\ fila' = <<>>
    /\ visitados' = {}
    /\ enfileirados' = Vazio
    /\ nao_visitados' = {}
    /\ distancia' = Vazio
    /\ anterior' = Vazio
    /\ retorno' = [erro |-> FALSE, valor |-> None]
    /\ UNCHANGED <<direcionado, adj, ult>>

\* ---------------------------------------------------- existe_trajeto (BFS)
\* existe_trajeto up to the first test of the while loop.
existe_trajeto(o, d) ==
    /\ pc = "idle"
    /\ origem' = o
    /\ destino' = d
    /\ IF \/ ~validar_intersecao_nome(o)
          \/ ~validar_intersecao_nome(d)
          \/ (o \notin DOMAIN adj \/ d \notin DOMAIN adj)
       THEN /\ Levanta("existe_trajeto_fim")
            /\ UNCHANGED <<ordem, fila, visitados, enfileirados>>
       ELSE /\ pc' = "existe_trajeto"
            /\ ordem' \in Ordens(adj)
            /\ visitados' = {}
            /\ fila' = <<o>>
            /\ enfileirados' = [n \in DOMAIN adj |-> IF n = o THEN 1 ELSE 0]
            /\ UNCHANGED retorno
    /\ UNCHANGED <<direcionado, adj, ult, nao_visitados, distancia, anterior>>

\* Mutant: the for loop stops after its first append.
vizinhos_a_enfileirar_so_um(viz, vis) ==
    LET novos == SelectSeq(viz, LAMBDA v : v \notin vis)
    IN  IF novos = <<>> THEN novos ELSE <<Head(novos)>>

\* The neighbours the for loop appends, in iteration order.
vizinhos_a_enfileirar(viz, vis) == SelectSeq(viz, LAMBDA v : v \notin vis)

\* One pass of the while loop: its test, and its body if the test holds.
existe_trajeto_passo ==
    /\ pc = "existe_trajeto"
    /\ IF fila = <<>>
       THEN /\ Retorna("existe_trajeto_fim", FALSE)
            /\ UNCHANGED <<fila, visitados, enfileirados>>
       ELSE LET atual == Head(fila)
                novos == vizinhos_a_enfileirar(ordem[atual], visitados \cup {atual})
            IN  IF atual = destino
                THEN /\ Retorna("existe_trajeto_fim", TRUE)
                     /\ fila' = Tail(fila)
                     /\ UNCHANGED <<visitados, enfileirados>>
                ELSE /\ visitados' = visitados \cup {atual}
                     /\ fila' = Tail(fila) \o novos
                     /\ enfileirados' =
                           [n \in DOMAIN enfileirados |->
                               enfileirados[n] + Cardinality({i \in 1..Len(novos) : novos[i] = n})]
                     /\ UNCHANGED <<pc, retorno>>
    /\ UNCHANGED <<direcionado, adj, ult, origem, destino, ordem,
                   nao_visitados, distancia, anterior>>

\* --------------------------------------------------- listar_caminhos (DFS)
\* Mutant: only the paths that cannot be extended are recorded.
RECURSIVE dfs_sem_prefixos(_, _, _)
dfs_sem_prefixos(ord, viz, caminho) ==
    IF viz = <<>> THEN <<>>
    ELSE LET vizinho == Head(viz)
             novo_caminho == caminho \o <<vizinho>>
             abaixo == dfs_sem_prefixos(ord, ord[vizinho], novo_caminho)
         IN  (IF vizinho \notin {caminho[i] : i \in 1..Len(caminho)}
              THEN (IF abaixo = <<>> THEN <<novo_caminho>> ELSE abaixo)
              ELSE <<>>)
             \o dfs_sem_prefixos(ord, Tail(viz), caminho)

\* What dfs(atual, caminho) appends to caminhos while its for loop runs over
\* viz, the not yet iterated neighbours of atual.
RECURSIVE dfs(_, _, _)
dfs(ord, viz, caminho) ==
    IF viz = <<>> THEN <<>>
    ELSE LET vizinho == Head(viz)
             novo_caminho == caminho \o <<vizinho>>
         IN  (IF vizinho \notin Elementos(caminho)
              THEN <<novo_caminho>> \o dfs(ord, ord[vizinho], novo_caminho)
              ELSE <<>>)
             \o dfs(ord, Tail(viz), caminho)

listar_caminhos(o) ==
    /\ pc = "idle"
    /\ origem' = o
    /\ IF ~validar_intersecao_nome(o) \/ o \notin DOMAIN adj
       THEN /\ Levanta("listar_caminhos_fim")
            /\ UNCHANGED ordem
       ELSE /\ ordem' \in Ordens(adj)
            /\ Retorna("listar_caminhos_fim", dfs(ordem', ordem'[o], <<o>>))
    /\ UNCHANGED <<direcionado, adj, ult, destino, fila, visitados, enfileirados,
                   nao_visitados, distancia, anterior>>

\* -------------------------------------------- caminho_mais_rapido (Dijkstra)
caminho_mais_rapido(o, d) ==
    /\ pc = "idle"
    /\ origem' = o
    /\ destino' = d
    /\ IF \/ ~validar_intersecao_nome(o)
          \/ ~validar_intersecao_nome(d)
          \/ (o \notin DOMAIN adj \/ d \notin DOMAIN adj)
       THEN /\ Levanta("caminho_mais_rapido_fim")
            /\ UNCHANGED <<nao_visitados, distancia, anterior>>
       ELSE /\ pc' = "caminho_mais_rapido"
            /\ nao_visitados' = DOMAIN adj
            /\ distancia' = [v \in DOMAIN adj |-> IF v = o THEN 0 ELSE INF]
            /\ anterior' = [v \in DOMAIN adj |-> None]
            /\ UNCHANGED retorno
    /\ UNCHANGED <<direcionado, adj, ult, ordem, fila, visitados, enfileirados>>

\* Mutant: any unfinalized node may be selected.
minimos_qualquer(nv, dist) == nv

\* The nodes min(nao_visitados, key=distancia) can return: a set iterates in
\* no fixed order, so any node of least distance.
minimos(nv, dist) == {v \in nv : \A w \in nv : dist[v] <= dist[w]}

\* Whether the for loop over self.adj[atual] updates vizinho.
melhora(g, atual, dist, vizinho) ==
    vizinho \in DOMAIN g[atual] /\ dist[atual] + g[atual][vizinho] < dist[vizinho]

\* Mutant: nova_dist is the edge's time alone.
relaxa_sem_somar(g, atual, dist) ==
    [v \in DOMAIN dist |->
        IF melhora(g, atual, dist, v) THEN g[atual][v] ELSE dist[v]]

\* distancia after the for loop over self.adj[atual].  Each pass writes only
\* its own vizinho and reads distancia[atual], which no pass lowers (times
\* are positive), so the passes do not depend on their order.
relaxa(g, atual, dist) ==
    [v \in DOMAIN dist |->
        IF melhora(g, atual, dist, v) THEN dist[atual] + g[atual][v] ELSE dist[v]]

\* anterior after the same loop.
relaxa_anterior(g, atual, dist, ant) ==
    [v \in DOMAIN ant |-> IF melhora(g, atual, dist, v) THEN atual ELSE ant[v]]

\* caminho after the while loop that walks anterior and the reverse().
RECURSIVE caminho_ate(_, _)
caminho_ate(ant, atual) ==
    IF atual = None THEN <<>> ELSE caminho_ate(ant, ant[atual]) \o <<atual>>

\* Mutant: an unreachable destination yields the one-node path.
resultado_sem_teste(dist, ant, d) == <<caminho_ate(ant, d), dist[d]>>

\* What caminho_mais_rapido returns once the loop is left.
resultado(dist, ant, d) ==
    IF dist[d] = INF THEN <<<<>>, INF>> ELSE <<caminho_ate(ant, d), dist[d]>>

\* One pass of the while loop (its test, and its body if the test holds);
\* a pass that leaves the loop runs on to the return.
caminho_mais_rapido_passo ==
    /\ pc = "caminho_mais_rapido"
    /\ IF nao_visitados = {}
       THEN /\ Retorna("caminho_mais_rapido_fim", resultado(distancia, anterior, destino))
            /\ UNCHANGED <<nao_visitados, distancia, anterior>>
       ELSE \E atual \in minimos(nao_visitados, distancia) :
              IF atual = destino
              THEN /\ Retorna("caminho_mais_rapido_fim", resultado(distancia, anterior, destino))
                   /\ UNCHANGED <<nao_visitados, distancia, anterior>>
              ELSE /\ nao_visitados' = nao_visitados \ {atual}
                   /\ IF distancia[atual] = INF
                      THEN /\ Retorna("caminho_mais_rapido_fim",
                                      resultado(distancia, anterior, destino))
                           /\ UNCHANGED <<distancia, anterior>>
                      ELSE /\ distancia' = relaxa(adj, atual, distancia)
                           /\ anterior' = relaxa_anterior(adj, atual, distancia, anterior)
                           /\ UNCHANGED <<pc, retorno>>
    /\ UNCHANGED <<direcionado, adj, ult, origem, destino, ordem, fila, visitados,
                   enfileirados>>

\* ---------------------------------------------------- query specifications
\* Neither search reads a travel time: the graphs it runs on are every graph
\* over Nomes, each edge with time 1.
InitBusca ==
    /\ Construido({TRUE}, 1, Cardinality(Nomes \X Nomes))
    /\ ult = [op |-> "__init__", erro |-> FALSE]
    /\ Ocioso

NextBusca ==
    \/ \E o \in NomesEntrada, d \in NomesEntrada : existe_trajeto(o, d)
    \/ existe_trajeto_passo
    \/ \E o \in NomesEntrada : listar_caminhos(o)
    \/ retornar

\* The loop of a started query is run to its end: the calls are synchronous.
SpecBusca == InitBusca /\ [][NextBusca]_vars /\ WF_vars(existe_trajeto_passo)

InitRota ==
    /\ Construido({TRUE}, MaxTempoRota, MaxRuasRota)
    /\ ult = [op |-> "__init__", erro |-> FALSE]
    /\ Ocioso

NextRota ==
    \/ \E o \in NomesEntrada, d \in NomesEntrada : caminho_mais_rapido(o, d)
    \/ caminho_mais_rapido_passo
    \/ retornar

SpecRota == InitRota /\ [][NextRota]_vars /\ WF_vars(caminho_mais_rapido_passo)

\* -------------------------------------------------------------- properties
A == <<"A">>
B == <<"B">>
C == <<"C">>

\* The walks of g with at most Cardinality(DOMAIN g) edges.
Caminhos(g) ==
    {p \in UNION {[1..k -> DOMAIN g] : k \in 1..(Cardinality(DOMAIN g) + 1)} :
        \A i \in 1..(Len(p) - 1) : possui_rua(g, p[i], p[i + 1])}

CaminhosEntre(g, o, d) == {p \in Caminhos(g) : p[1] = o /\ p[Len(p)] = d}

Simples(p) == \A i, j \in 1..Len(p) : i /= j => p[i] /= p[j]

\* The simple paths with at least one edge that start at o.
SimplesDe(g, o) == {p \in Caminhos(g) : p[1] = o /\ Len(p) >= 2 /\ Simples(p)}

Alcancavel(g, o, d) == CaminhosEntre(g, o, d) /= {}

RECURSIVE Custo(_, _)
Custo(g, p) == IF Len(p) <= 1 THEN 0 ELSE g[p[1]][p[2]] + Custo(g, Tail(p))

MinCusto(g, o, d) ==
    CHOOSE c \in {Custo(g, p) : p \in CaminhosEntre(g, o, d)} :
        \A p \in CaminhosEntre(g, o, d) : c <= Custo(g, p)

Simetrico(g) ==
    \A a, b \in Nomes :
        /\ possui_rua(g, a, b) <=> possui_rua(g, b, a)
        /\ possui_rua(g, a, b) => g[a][b] = g[b][a]

\* C1: in an undirected graph the edge a->b exists iff b->a exists, and the
\* two have equal weight, in every reachable state.
C1_Simetria == ~direcionado => Simetrico(adj)

\* C2: every destination of an edge is a key of the adjacency structure.
C2_DestinosSaoChaves == \A o \in DOMAIN adj : DOMAIN adj[o] \subseteq DOMAIN adj

C2_Witness ==
    /\ ult = [op |-> "remover_intersecao", erro |-> FALSE]
    /\ \E o \in DOMAIN adj, d \in DOMAIN adj : o /= d /\ possui_rua(adj, o, d) /\ adj[d] = Vazio

RotaFim == pc = "caminho_mais_rapido_fim" /\ ~retorno.erro

\* C3: when destino is reachable from origem, the total caminho_mais_rapido
\* returns is the least cost of a path from origem to destino.
C3_TempoMinimo ==
    (RotaFim /\ Alcancavel(adj, origem, destino))
        => retorno.valor[2] = MinCusto(adj, origem, destino)

C3_Witness ==
    /\ RotaFim
    /\ origem = A /\ destino = C
    /\ retorno.valor = << <<A, B, C>>, 2 >>
    /\ possui_rua(adj, A, C) /\ adj[A][C] = 3

\* C4: a non-empty path returned by caminho_mais_rapido starts at origem, ends
\* at destino, follows existing edges whose times sum to the returned total,
\* which is not negative; for origem = destino it is [origem] with total 0.
C4_CaminhoCoerente ==
    RotaFim =>
        LET caminho == retorno.valor[1]
            total == retorno.valor[2]
        IN  /\ caminho /= <<>> =>
                 /\ caminho[1] = origem
                 /\ caminho[Len(caminho)] = destino
                 /\ caminho \in Caminhos(adj)
                 /\ Custo(adj, caminho) = total
                 /\ total >= 0
            /\ origem = destino => caminho = <<origem>> /\ total = 0

C4_Witness ==
    /\ RotaFim
    /\ Len(retorno.valor[1]) = 3
    /\ retorno.valor[2] = 1 + MaxTempoRota

\* C5: caminho_mais_rapido returns the empty path with infinite cost exactly
\* when destino is not reachable from origem, as a value and not an error,
\* and its loop terminates.
C5_Inalcancavel ==
    /\ [](RotaFim => (retorno.valor = << <<>>, INF >> <=> ~Alcancavel(adj, origem, destino)))
    /\ [](pc = "caminho_mais_rapido_fim" /\ origem \in DOMAIN adj /\ destino \in DOMAIN adj
            => ~retorno.erro)
    /\ (pc = "caminho_mais_rapido") ~> (pc = "caminho_mais_rapido_fim")

C5_Witness ==
    /\ RotaFim
    /\ retorno.valor = << <<>>, INF >>
    /\ origem /= destino
    /\ adj[origem] /= Vazio
    /\ nao_visitados /= {destino}

\* C6: a successful remover_intersecao(n) leaves n no node, no edge m->n, and
\* every other node and every edge between other nodes as it was.
C6_RemoverIntersecao ==
    [][\A n \in NomesEntrada :
          (ult' = [op |-> "remover_intersecao", erro |-> FALSE] /\ remover_intersecao(n)) =>
              /\ ~possui_intersecao(adj', n)
              /\ \A m \in DOMAIN adj' : ~possui_rua(adj', m, n)
              /\ DOMAIN adj' = (DOMAIN adj) \ {n}
              /\ \A a, b \in Nomes \ {n} :
                    /\ possui_rua(adj', a, b) <=> possui_rua(adj, a, b)
                    /\ possui_rua(adj, a, b) => adj'[a][b] = adj[a][b]]_vars

C6_Witness ==
    /\ ult = [op |-> "remover_intersecao", erro |-> FALSE]
    /\ Cardinality(DOMAIN adj) = 2
    /\ \E a, b \in DOMAIN adj : a /= b /\ possui_rua(adj, a, b) /\ adj[a][b] = MaxTempo

TrajetoFim == pc = "existe_trajeto_fim" /\ ~retorno.erro

\* C7: existe_trajeto terminates and returns true exactly when a path of zero
\* or more edges leads from origem to destino.
C7_ExisteTrajeto ==
    /\ [](TrajetoFim => (retorno.valor <=> Alcancavel(adj, origem, destino)))
    /\ [](TrajetoFim /\ origem = destino => retorno.valor)
    /\ (pc = "existe_trajeto") ~> (pc = "existe_trajeto_fim")

C7_Witness ==
    /\ TrajetoFim
    /\ retorno.valor
    /\ origem /= destino
    /\ ~possui_rua(adj, origem, destino)
    /\ possui_rua(adj, destino, origem)

\* C8: the result of listar_caminhos holds, once each, every simple path with
\* at least one edge that starts at origem, and nothing else.
C8_ListarCaminhos ==
    (pc = "listar_caminhos_fim" /\ ~retorno.erro) =>
        LET caminhos == retorno.valor
        IN  /\ \A i, j \in 1..Len(caminhos) : i /= j => caminhos[i] /= caminhos[j]
            /\ Elementos(caminhos) = SimplesDe(adj, origem)
            /\ \A i \in 1..Len(caminhos) :
                  Simples(caminhos[i]) /\ caminhos[i] \in Caminhos(adj)

C8_Witness ==
    /\ pc = "listar_caminhos_fim" /\ ~retorno.erro
    /\ possui_rua(adj, origem, origem)
    /\ \E n \in DOMAIN adj : n /= origem /\ possui_rua(adj, origem, n) /\ possui_rua(adj, n, origem)
    /\ Len(retorno.valor) = 4

Falha(g, r) == r.erro /\ r.adj = g

\* C9: a mutation that fails (an invalid name, a time that is not positive
\* and finite, an absent node or edge to remove) is reported as an error and
\* leaves the adjacency structure exactly as it was.
C9_FalhaNaoAltera ==
    /\ [](/\ \A n \in NomesInvalidos : Falha(adj, com_intersecao(adj, n))
          /\ \A o \in Nomes \cup NomesInvalidos, d \in Nomes \cup NomesInvalidos,
                t \in TemposValidos \cup TemposInvalidos :
                (o \in NomesInvalidos \/ d \in NomesInvalidos \/ t \in TemposInvalidos)
                    => Falha(adj, com_rua(adj, direcionado, o, d, t))
          /\ \A n \in Nomes \cup NomesInvalidos :
                ~possui_intersecao(adj, n) => Falha(adj, sem_intersecao(adj, n))
          /\ \A o \in Nomes \cup NomesInvalidos, d \in Nomes \cup NomesInvalidos :
                ~possui_rua(adj, o, d) => Falha(adj, sem_rua(adj, direcionado, o, d)))
    /\ [][ult'.erro => adj' = adj /\ direcionado' = direcionado]_vars

C9_Witness ==
    /\ ult = [op |-> "adicionar_rua", erro |-> TRUE]
    /\ ~direcionado
    /\ Cardinality(DOMAIN adj) = 1

\* C10: during existe_trajeto each node is appended to the queue at most once.
C10_EnfileiradoUmaVez == \A n \in DOMAIN enfileirados : enfileirados[n] <= 1

====
